---------------------------- MODULE Spec2Model ----------------------------
(***************************************************************************)
(* Model of notebooks_en/1_Properties.ipynb: a substance handle (Cantera   *)
(* ct.Water()) on which a property pair is set and from which properties   *)
(* are read, the sweeps that sample property curves, the saturation-point  *)
(* computations, Tv_vapor_dome and Tv_diagram, the rigid-tank process, the *)
(* isobar loops and the phase determinations.                              *)
(*                                                                         *)
(* The Property Provider is an external library.  It is modelled by a      *)
(* small integer water table ("toy water"): temperatures, pressures and    *)
(* specific volumes are integer levels, quality is q/QScale.               *)
(***************************************************************************)
EXTENDS Integers, Sequences, FiniteSets, TLC

(***************************************************************************)
(* Bounds of the model.                                                    *)
(***************************************************************************)
\* longest sample sequence of a sweep
MaxN == 3
\* largest spacing of a sample sequence
MaxStep == 2
\* quality resolution: quality x is q/QScale, q \in 0..QScale, with
\* QScale = 2*QHalf so that x = 0.5 is the level QHalf
QHalf == 1
QScale == 2 * QHalf

(***************************************************************************)
(* The Property Provider (toy water).                                      *)
(***************************************************************************)
\* offset between the saturation temperature and the pressure level
TOff == 2
\* w.critical_pressure
Pcrit == 4
\* w.critical_temperature
Tcrit == Pcrit + TOff
\* lowest and highest temperature the provider accepts
TMinValid == 3
TMaxValid == 8
\* highest pressure the provider accepts
PMaxValid == 5
\* specific volume of the saturated liquid at temperature level 0
VF0 == 10
\* growth of v_g - v_f per temperature level below Tcrit, per quality step
DVK == 5
\* growth of the vapor's specific volume per temperature level
HV == 3
\* np.nan
NaN == -1

\* saturation pressure at temperature T (T <= Tcrit)
Psat(T) == T - TOff
\* saturation temperature at pressure P (P <= Pcrit)
TsatP(P) == P + TOff
\* saturated liquid / saturated vapor specific volume at temperature T
VfT(T) == VF0 + 2 * T
VgT(T) == VfT(T) + QScale * DVK * (Tcrit - T)
\* 1/w.critical_density
vcrit == VfT(Tcrit)

\* specific volume of the state fixed by temperature T and pressure P
VofTP(T, P) ==
  IF T < Tcrit /\ P >= Psat(T) THEN VfT(T) - (P - Psat(T))
  ELSE IF P < Pcrit THEN VgT(TsatP(P)) + HV * (T - TsatP(P))
  ELSE vcrit + HV * (T - Tcrit) - (P - Pcrit)

\* specific volume of the saturated state of quality q/QScale at temperature T
VofTX(T, q) == ((QScale - q) * VfT(T) + q * VgT(T)) \div QScale

\* temperature of the state fixed by pressure P and specific volume v
TofPV(P, v) ==
  IF P < Pcrit
  THEN IF v < VfT(TsatP(P)) THEN (v - VF0 + P + TOff) \div 3
       ELSE IF v <= VgT(TsatP(P)) THEN TsatP(P)
       ELSE TsatP(P) + (v - VgT(TsatP(P))) \div HV
  ELSE IF v < vcrit - (P - Pcrit) THEN (v - VF0 + P + TOff) \div 3
       ELSE Tcrit + (v - vcrit + (P - Pcrit)) \div HV

\* pressure of the state fixed by temperature T and specific volume v
PofTV(T, v) ==
  IF T < Tcrit
  THEN IF v < VfT(T) THEN Psat(T) + (VfT(T) - v)
       ELSE IF v <= VgT(T) THEN Psat(T)
       ELSE (VF0 + 2 * TOff + QScale * DVK * Pcrit + HV * (T - TOff) - v)
              \div (QScale * DVK - 2 + HV)
  ELSE (VF0 + 2 * TOff + QScale * DVK * Pcrit + HV * (T - TOff) - v)
         \div (QScale * DVK - 2 + HV)

(***************************************************************************)
(* The substance handle.  A handle holds exactly one state: the property   *)
(* pair last set on it.  Every other property is derived from that pair    *)
(* when it is read.                                                        *)
(***************************************************************************)
\* standard atmospheric pressure and temperature (levels of the toy table)
P_atm == 2
T_atm == 3

\* the state a handle holds: which pair was set, and its two values
Handle(kind, a, b) == [kind |-> kind, a |-> a, b |-> b]

\* ct.Water(): a new handle, at the library's default state
Water == Handle("TP", T_atm, P_atm)

\* whether the provider accepts the pair; a set of a pair it rejects raises
Valid(kind, a, b) ==
  CASE kind = "TP" -> a \in TMinValid..TMaxValid /\ b \in 1..PMaxValid
    [] kind = "PX" -> a \in 1..Pcrit /\ b \in 0..QScale
    [] kind = "TX" -> a \in TMinValid..Tcrit /\ b \in 0..QScale
    [] kind = "PV" -> a \in 1..PMaxValid /\ b >= 1
                        /\ TofPV(a, b) \in TMinValid..TMaxValid
    [] kind = "TV" -> a \in TMinValid..TMaxValid /\ b >= 1
                        /\ PofTV(a, b) \in 1..PMaxValid

\* h.T
TOf(h) ==
  CASE h.kind \in {"TP", "TX", "TV"} -> h.a
    [] h.kind = "PX" -> TsatP(h.a)
    [] h.kind = "PV" -> TofPV(h.a, h.b)

\* h.P
POf(h) ==
  CASE h.kind = "TP" -> h.b
    [] h.kind \in {"PX", "PV"} -> h.a
    [] h.kind = "TX" -> Psat(h.a)
    [] h.kind = "TV" -> PofTV(h.a, h.b)

\* h.v
VOf(h) ==
  CASE h.kind = "TP" -> VofTP(h.a, h.b)
    [] h.kind = "PX" -> VofTX(TsatP(h.a), h.b)
    [] h.kind = "TX" -> VofTX(h.a, h.b)
    [] h.kind \in {"TV", "PV"} -> h.b

\* h.T_sat: the saturation temperature at the handle's pressure; it raises
\* above the critical pressure
HasTsat(h) == POf(h) <= Pcrit
TsatOf(h) == TsatP(POf(h))

(***************************************************************************)
(* Inputs.                                                                 *)
(***************************************************************************)
\* np.linspace as a sequence of n equally spaced levels from lo
Linspace(lo, st, n) == [k \in 1..n |-> lo + (k - 1) * st]

\* np.linspace(lo, hi, n): n levels from lo to hi, both included
LinspaceTo(lo, hi, n) ==
  [k \in 1..n |-> IF n = 1 THEN lo ELSE lo + ((k - 1) * (hi - lo)) \div (n - 1)]

\* np.zeros_like / np.zeros: n zeros, or n rows of m zeros
Zeros(n) == [k \in 1..n |-> 0]
Zeros2(n, m) == [k \in 1..n |-> [l \in 1..m |-> 0]]

\* np.full_like(v_array, np.nan)
FullNaN(n) == [k \in 1..n |-> NaN]

\* the temperature sequences a sweep is run over
TArrays ==
  {Linspace(lo, st, n) : lo \in (TMinValid - 1)..5, st \in 1..MaxStep, n \in 1..MaxN}

\* P_array of the sweeps over several pressures: sea level, Pikes Peak
\* (0.6*P_atm) and the pressure vessel (20*P_atm)
PArrays == {<<P_atm, P_atm - 1>>, <<P_atm, P_atm - 1, P_atm + 1>>}

\* the specific volume sequences an isobar loop is run over (np.logspace)
VArrays ==
  {Linspace(lo, 6 * st, n) : lo \in {13, 16}, st \in 1..MaxStep, n \in 1..(MaxN + 1)}

\* the specific volumes whose phase is asked for
VInputs == {12 + 2 * k : k \in 0..20}

\* the cut-off temperatures of the isobar loops (600 C and 400 C)
TCut600 == 7
TCut400 == 6

\* the states of "Try it!": a. T = 25 C, v = 0.001001; b. P = 1 MPa, v = 0.32;
\* c. T = 50 C, v = 10  (levels of the toy table)
T_a == 3
v_a == 15
P_b == 3
v_b == 44
T_c == 4
v_c == 28

\* P3 = 100e3, the pressure of process state 3
P3 == 2
Examples ==
  << [by |-> "T", at |-> T_a, v |-> v_a],
     [by |-> "P", at |-> P_b, v |-> v_b],
     [by |-> "T", at |-> T_c, v |-> v_c] >>

VARIABLES
  pc,        \* position in the running cell: "idle", a statement, "done", "raised"
  cell,      \* the cell that runs
  err,       \* the exception the running cell raised, "none" when none
  w,         \* the global water handle
  wl,        \* the water handle local to Tv_vapor_dome
  state1,    \* the handle of process state 1
  state2,    \* the handle of process state 2
  state3,    \* the handle of process state 3
  T_array,   \* sample temperatures of a sweep; result array of an isobar loop
  P_array,   \* pressures of the running sweep
  v_array,   \* result array of a sweep; sample volumes of an isobar loop
  i,         \* loop index over rows (temperatures, volumes)
  i_dome,    \* loop index of Tv_vapor_dome (local to the function)
  j,         \* loop index over columns (pressures)
  nset,      \* set operations issued by the running cell
  Tcut,      \* cut-off temperature of the running isobar loop
  Tsat,      \* saturation temperature captured
  vf,        \* saturated liquid specific volume captured
  vhalf,     \* specific volume captured at x = 0.5
  vg,        \* saturated vapor specific volume captured
  T_dome,    \* T_array of Tv_vapor_dome (local to the function)
  vf_array,  \* saturated liquid curve of Tv_vapor_dome
  vg_array,  \* saturated vapor curve of Tv_vapor_dome
  by,        \* "T" or "P": the property a phase determination is given with v
  at,        \* its value
  v,         \* the specific volume whose phase is asked for
  phase,     \* the phase concluded, "none" before
  x,         \* the quality computed, [num, den]; den = 0 before
  part,      \* the part of "Try it!" being determined (1, 2, 3 for a, b, c); 0 otherwise
  phases,    \* the phases concluded for the parts of "Try it!" so far
  T1,        \* temperature set on state 1
  P1,        \* pressure set on state 1
  v1,        \* specific volume read from state 1 (v2 = v1, v3 = v2)
  T2,        \* temperature set on state 2
  P2,        \* pressure read from state 2
  T3,        \* temperature read from state 3
  ret,       \* where the running Tv_vapor_dome returns to
  args,      \* Tv_diagram: the names of the handles passed, in order
  T_states,  \* Tv_diagram: temperatures of the states
  v_states,  \* Tv_diagram: specific volumes of the states
  i_diag,    \* Tv_diagram: loop index (local to the function)
  labels,    \* Tv_diagram: the texts placed, [v, T, text]
  reads,     \* Tv_diagram: the property reads made, [h, p], in order
  rho,       \* the density printed, [num, den]; den = 0 before
  v_spec,    \* the specific volume printed
  inv_rho,   \* the inverse of density printed, [num, den]; den = 0 before
  plotted    \* the arrays handed to the plotting call, << >> before

ctlVars == <<pc, cell, err>>
handleVars == <<w, wl, state1, state2, state3>>
sweepVars == <<T_array, P_array, v_array, i, j, nset, Tcut>>
satVars == <<Tsat, vf, vhalf, vg>>
domeVars == <<i_dome, T_dome, vf_array, vg_array, ret>>
phaseVars == <<by, at, v, phase, x, part, phases>>
procVars == <<T1, P1, v1, T2, P2, T3>>
diagVars == <<args, T_states, v_states, i_diag, labels, reads>>
introVars == <<rho, v_spec, inv_rho>>

vars == <<ctlVars, handleVars, sweepVars, satVars, domeVars, phaseVars, procVars, diagVars,
          introVars, plotted>>

Init ==
  /\ pc = "idle"
  /\ cell = "none"
  /\ err = "none"
  /\ w = Water
  /\ wl = Water
  /\ state1 = Water
  /\ state2 = Water
  /\ state3 = Water
  /\ T_array = << >>
  /\ P_array = << >>
  /\ v_array = << >>
  /\ i = 1
  /\ j = 1
  /\ nset = 0
  /\ Tcut = TCut600
  /\ Tsat = 0
  /\ vf = 0
  /\ vhalf = 0
  /\ vg = 0
  /\ i_dome = 1
  /\ T_dome = << >>
  /\ vf_array = << >>
  /\ vg_array = << >>
  /\ by = "T"
  /\ at = 0
  /\ v = 0
  /\ phase = "none"
  /\ x = [num |-> 0, den |-> 0]
  /\ part = 0
  /\ phases = << >>
  /\ T1 = 0
  /\ P1 = 0
  /\ v1 = 0
  /\ T2 = 0
  /\ P2 = 0
  /\ T3 = 0
  /\ ret = "done"
  /\ args = << >>
  /\ T_states = << >>
  /\ v_states = << >>
  /\ i_diag = 1
  /\ labels = << >>
  /\ reads = << >>
  /\ rho = [num |-> 0, den |-> 0]
  /\ v_spec = 0
  /\ inv_rho = [num |-> 0, den |-> 0]
  /\ plotted = << >>

\* an exception ends the cell: a set of a pair the provider rejects, or a
\* read it cannot answer
Raise(e) ==
  /\ pc' = "raised"
  /\ err' = e

(***************************************************************************)
(* w.TP = T, P_atm  (the single sets of the introduction: 15, 99, 101 C)   *)
(***************************************************************************)
PlainSetTP ==
  /\ pc = "idle"
  /\ \E T \in {T_atm, T_atm + 2} :
       /\ Valid("TP", T, P_atm)
       /\ w' = Handle("TP", T, P_atm)
  /\ UNCHANGED <<ctlVars, wl, state1, state2, state3, sweepVars, satVars, domeVars, phaseVars,
                 procVars, diagVars, introVars, plotted>>

(***************************************************************************)
(* Density and specific volume:                                            *)
(*   print('Density =',w.density,'kg/m^3')                                 *)
(*   print('Specific volume =',w.v,'m^3/kg')                               *)
(*   print('Inverse of density =',1/w.density,'m^3/kg')                    *)
(* Values that are not integers are kept as fractions num/den.             *)
(***************************************************************************)
\* h.density: the mass per volume of the state the handle holds
DensityOf(h) == [num |-> 1, den |-> VOf(h)]

\* 1/r
Inverse(r) == [num |-> r.den, den |-> r.num]

\* print('Density =',w.density,'kg/m^3')
ReadDensity ==
  /\ pc = "idle"
  /\ rho' = DensityOf(w)
  /\ UNCHANGED <<ctlVars, handleVars, sweepVars, satVars, domeVars, phaseVars, procVars, diagVars,
                 v_spec, inv_rho, plotted>>

\* print('Specific volume =',w.v,'m^3/kg')
InvReadV ==
  /\ pc = "idle"
  /\ v_spec' = VOf(w)
  /\ pc' = "inv_rho"
  /\ cell' = "inverse"
  /\ UNCHANGED <<err, handleVars, sweepVars, satVars, domeVars, phaseVars, procVars, diagVars,
                 rho, inv_rho, plotted>>

\* mutant of InvReadDensity: the density printed before is inverted, not the
\* density of the state the handle holds now
InvReadDensityRetained ==
  /\ pc = "inv_rho"
  /\ inv_rho' = Inverse(rho)
  /\ pc' = "done"
  /\ UNCHANGED <<cell, err, handleVars, sweepVars, satVars, domeVars, phaseVars, procVars, diagVars,
                 rho, v_spec, plotted>>

\* print('Inverse of density =',1/w.density,'m^3/kg')
InvReadDensity ==
  /\ pc = "inv_rho"
  /\ inv_rho' = Inverse(DensityOf(w))
  /\ pc' = "done"
  /\ UNCHANGED <<cell, err, handleVars, sweepVars, satVars, domeVars, phaseVars, procVars, diagVars,
                 rho, v_spec, plotted>>

(***************************************************************************)
(* T-v sweep at one pressure:                                              *)
(*   for i in range(T_array.size):                                         *)
(*       w.TP = T_array[i], P_atm                                          *)
(*       v_array[i] = w.v                                                  *)
(*   plt.semilogx(v_array, T_array-273.15)                                 *)
(***************************************************************************)
StartSweep1D ==
  /\ pc = "idle"
  /\ \E Ts \in TArrays, P \in 1..(P_atm + 1) :
       /\ T_array' = Ts
       /\ P_array' = <<P>>
       /\ v_array' = Zeros(Len(Ts))
  /\ i' = 1
  /\ nset' = 0
  /\ pc' = "s1_set"
  /\ cell' = "tv1"
  /\ UNCHANGED <<err, handleVars, j, Tcut, satVars, domeVars, phaseVars, procVars,
                 diagVars, introVars, plotted>>

\* mutant of StoreIndex: every result stored in the first entry
StoreIndexFirst(k) == 1

\* the index the result of sample k is stored at
StoreIndex(k) == k

\* mutant of Sweep1DSet: a sample the provider rejects is recorded as NaN and
\* the sweep goes on with the next sample
Sweep1DSetTolerant ==
  /\ pc = "s1_set"
  /\ i <= Len(T_array)
  /\ IF Valid("TP", T_array[i], P_array[1])
     THEN /\ w' = Handle("TP", T_array[i], P_array[1])
          /\ nset' = nset + 1
          /\ pc' = "s1_read"
          /\ UNCHANGED <<v_array, i>>
     ELSE /\ v_array' = [v_array EXCEPT ![i] = NaN]
          /\ i' = i + 1
          /\ UNCHANGED <<w, nset, pc>>
  /\ UNCHANGED <<cell, err, wl, state1, state2, state3, T_array, P_array, j, Tcut,
                 satVars, domeVars, phaseVars, procVars, diagVars, introVars, plotted>>

Sweep1DSet ==
  /\ pc = "s1_set"
  /\ i <= Len(T_array)
  /\ IF Valid("TP", T_array[i], P_array[1])
     THEN /\ w' = Handle("TP", T_array[i], P_array[1])
          /\ nset' = nset + 1
          /\ pc' = "s1_read"
          /\ UNCHANGED err
     ELSE /\ Raise("out_of_range")
          /\ UNCHANGED <<w, nset>>
  /\ UNCHANGED <<cell, wl, state1, state2, state3, T_array, P_array, v_array, i, j, Tcut,
                 satVars, domeVars, phaseVars, procVars, diagVars, introVars, plotted>>

\* mutant of Sweep1DRead: the loop index is not advanced, the same sample is
\* queried again
Sweep1DReadNoAdvance ==
  /\ pc = "s1_read"
  /\ v_array' = [v_array EXCEPT ![StoreIndex(i)] = VOf(w)]
  /\ pc' = "s1_set"
  /\ UNCHANGED <<cell, err, handleVars, T_array, P_array, i, j, nset, Tcut,
                 satVars, domeVars, phaseVars, procVars, diagVars, introVars, plotted>>

Sweep1DRead ==
  /\ pc = "s1_read"
  /\ v_array' = [v_array EXCEPT ![StoreIndex(i)] = VOf(w)]
  /\ i' = i + 1
  /\ pc' = "s1_set"
  /\ UNCHANGED <<cell, err, handleVars, T_array, P_array, j, nset, Tcut,
                 satVars, domeVars, phaseVars, procVars, diagVars, introVars, plotted>>

\* plt.semilogx(v_array,T_array-273.15) and, after the saturation points,
\* plt.semilogx(v_array,T_array-273.15,'b',[vf, vhalf, vg],[Tsat, Tsat, Tsat],'r*')
Sweep1DPlot ==
  /\ pc = "s1_set"
  /\ i > Len(T_array)
  /\ plotted' = IF cell = "sat"
                THEN <<v_array, T_array, <<vf, vhalf, vg>>, <<Tsat, Tsat, Tsat>>>>
                ELSE <<v_array, T_array>>
  /\ pc' = "done"
  /\ UNCHANGED <<cell, err, handleVars, sweepVars, satVars, domeVars, phaseVars, procVars,
                 diagVars, introVars>>

(***************************************************************************)
(* T-v sweep over several pressures:                                       *)
(*   for i in range(T_array.size):                                         *)
(*       for j in range(P_array.size):                                     *)
(*           w.TP = T_array[i], P_array[j]                                 *)
(*           v_array[i,j] = w.v                                            *)
(*   plt.semilogx(v_array,T_array-273.15)                                  *)
(***************************************************************************)
StartSweep2D ==
  /\ pc = "idle"
  /\ \E Ts \in TArrays, Ps \in PArrays :
       /\ T_array' = Ts
       /\ P_array' = Ps
       /\ v_array' = Zeros2(Len(Ts), Len(Ps))
  /\ i' = 1
  /\ j' = 1
  /\ nset' = 0
  /\ pc' = "s2_set"
  /\ cell' = "tv2"
  /\ UNCHANGED <<err, handleVars, Tcut, satVars, domeVars, phaseVars, procVars, diagVars,
                 introVars, plotted>>

Sweep2DSet ==
  /\ pc = "s2_set"
  /\ i <= Len(T_array)
  /\ IF Valid("TP", T_array[i], P_array[j])
     THEN /\ w' = Handle("TP", T_array[i], P_array[j])
          /\ nset' = nset + 1
          /\ pc' = "s2_read"
          /\ UNCHANGED err
     ELSE /\ Raise("out_of_range")
          /\ UNCHANGED <<w, nset>>
  /\ UNCHANGED <<cell, wl, state1, state2, state3, T_array, P_array, v_array, i, j, Tcut,
                 satVars, domeVars, phaseVars, procVars, diagVars, introVars, plotted>>

Sweep2DRead ==
  /\ pc = "s2_read"
  /\ v_array' = [v_array EXCEPT ![i][j] = VOf(w)]
  /\ IF j < Len(P_array)
     THEN j' = j + 1 /\ i' = i
     ELSE j' = 1 /\ i' = i + 1
  /\ pc' = "s2_set"
  /\ UNCHANGED <<cell, err, handleVars, T_array, P_array, nset, Tcut,
                 satVars, domeVars, phaseVars, procVars, diagVars, introVars, plotted>>

\* the plot of the curves; the loop over the saturated states follows
Sweep2DPlot ==
  /\ pc = "s2_set"
  /\ i > Len(T_array)
  /\ plotted' = <<v_array, T_array>>
  /\ j' = 1
  /\ pc' = "sat_tp"
  /\ UNCHANGED <<cell, err, handleVars, T_array, P_array, v_array, i, nset, Tcut,
                 satVars, domeVars, phaseVars, procVars, diagVars, introVars>>

(***************************************************************************)
(* The saturation points at one pressure, P_array[j]:                      *)
(*   w.TP = T_atm, P ; Tsat = w.T_sat                                      *)
(*   w.PX = P, 0     ; vf = w.v                                            *)
(*   w.PX = P, 0.5   ; vhalf = w.v                                         *)
(*   w.PX = P, 1     ; vg = w.v                                            *)
(* once at sea level before a T-v sweep, and in a loop over P_array after  *)
(* the sweep over several pressures.                                       *)
(***************************************************************************)
StartSat ==
  /\ pc = "idle"
  /\ P_array' = <<P_atm>>
  /\ j' = 1
  /\ pc' = "sat_tp"
  /\ cell' = "sat"
  /\ UNCHANGED <<err, handleVars, T_array, v_array, i, nset, Tcut, satVars, domeVars,
                 phaseVars, procVars, diagVars, introVars, plotted>>

\* mutant of SetW: a pair the provider rejects leaves the handle at its
\* default state and the cell goes on
SetWDefault(kind, a, b, next) ==
  /\ w' = IF Valid(kind, a, b) THEN Handle(kind, a, b) ELSE Water
  /\ pc' = next
  /\ UNCHANGED err

\* a set on the global handle w: it overwrites the state w holds, or raises
SetW(kind, a, b, next) ==
  IF Valid(kind, a, b)
  THEN /\ w' = Handle(kind, a, b)
       /\ pc' = next
       /\ UNCHANGED err
  ELSE /\ Raise("out_of_range")
       /\ UNCHANGED w

SatSetTP ==
  /\ pc = "sat_tp"
  /\ SetW("TP", T_atm, P_array[j], "sat_tsat")
  /\ UNCHANGED <<cell, wl, state1, state2, state3, sweepVars, satVars, domeVars, phaseVars,
                 procVars, diagVars, introVars, plotted>>

SatReadTsat ==
  /\ pc = "sat_tsat"
  /\ IF HasTsat(w)
     THEN /\ Tsat' = TsatOf(w)
          /\ pc' = "sat_px0"
          /\ UNCHANGED err
     ELSE /\ Raise("out_of_range")
          /\ UNCHANGED Tsat
  /\ UNCHANGED <<cell, handleVars, sweepVars, vf, vhalf, vg, domeVars, phaseVars,
                 procVars, diagVars, introVars, plotted>>

SatSetPX0 ==
  /\ pc = "sat_px0"
  /\ SetW("PX", P_array[j], 0, "sat_vf")
  /\ UNCHANGED <<cell, wl, state1, state2, state3, sweepVars, satVars, domeVars, phaseVars,
                 procVars, diagVars, introVars, plotted>>

SatReadVf ==
  /\ pc = "sat_vf"
  /\ vf' = VOf(w)
  /\ pc' = "sat_pxh"
  /\ UNCHANGED <<cell, err, handleVars, sweepVars, Tsat, vhalf, vg, domeVars, phaseVars,
                 procVars, diagVars, introVars, plotted>>

\* mutant of SatSetPXhalf: the set of (P, 0.5) left out, the read that follows
\* finds the handle still at (P, 0)
SatSetPXhalfMissing ==
  /\ pc = "sat_pxh"
  /\ pc' = "sat_vhalf"
  /\ UNCHANGED <<cell, err, handleVars, sweepVars, satVars, domeVars, phaseVars,
                 procVars, diagVars, introVars, plotted>>

SatSetPXhalf ==
  /\ pc = "sat_pxh"
  /\ SetW("PX", P_array[j], QHalf, "sat_vhalf")
  /\ UNCHANGED <<cell, wl, state1, state2, state3, sweepVars, satVars, domeVars, phaseVars,
                 procVars, diagVars, introVars, plotted>>

SatReadVhalf ==
  /\ pc = "sat_vhalf"
  /\ vhalf' = VOf(w)
  /\ pc' = "sat_px1"
  /\ UNCHANGED <<cell, err, handleVars, sweepVars, Tsat, vf, vg, domeVars, phaseVars,
                 procVars, diagVars, introVars, plotted>>

SatSetPX1 ==
  /\ pc = "sat_px1"
  /\ SetW("PX", P_array[j], QScale, "sat_vg")
  /\ UNCHANGED <<cell, wl, state1, state2, state3, sweepVars, satVars, domeVars, phaseVars,
                 procVars, diagVars, introVars, plotted>>

SatReadVg ==
  /\ pc = "sat_vg"
  /\ vg' = VOf(w)
  /\ pc' = IF cell = "sat" THEN "sat_arrays" ELSE "sat_plot"
  /\ UNCHANGED <<cell, err, handleVars, sweepVars, Tsat, vf, vhalf, domeVars, phaseVars,
                 procVars, diagVars, introVars, plotted>>

\* at sea level: T_array and v_array of the sweep that follows
SatArrays ==
  /\ pc = "sat_arrays"
  /\ \E Ts \in TArrays :
       /\ T_array' = Ts
       /\ v_array' = Zeros(Len(Ts))
  /\ i' = 1
  /\ nset' = 0
  /\ pc' = "s1_set"
  /\ UNCHANGED <<cell, err, handleVars, P_array, j, Tcut, satVars, domeVars, phaseVars,
                 procVars, diagVars, introVars, plotted>>

\* in the loop over P_array: plt.semilogx([vf, vhalf, vg],np.full((3,),Tsat)-273.15,'r*')
SatPlot ==
  /\ pc = "sat_plot"
  /\ plotted' = <<<<vf, vhalf, vg>>, <<Tsat, Tsat, Tsat>>>>
  /\ j' = j + 1
  /\ pc' = IF j < Len(P_array) THEN "sat_tp" ELSE "done"
  /\ UNCHANGED <<cell, err, handleVars, T_array, P_array, v_array, i, nset, Tcut,
                 satVars, domeVars, phaseVars, procVars, diagVars, introVars>>

(***************************************************************************)
(* Tv_vapor_dome():                                                        *)
(*   w = ct.Water()                                                        *)
(*   T_array = np.linspace(15+273.15,0.9999*Tcrit)                         *)
(*   for i in range(T_array.size):                                         *)
(*       w.TX = T_array[i], 0 ; vf_array[i] = w.v                          *)
(*       w.TX = T_array[i], 1 ; vg_array[i] = w.v                          *)
(*   plt.semilogx(vf_array,T_array,'g',vg_array,T_array,'g',vcrit,Tcrit)   *)
(***************************************************************************)
\* mutant of DomeEntry: the temperature range runs up to Tcrit itself
DomeEntryToTcrit(next) ==
  /\ wl' = Water
  /\ \E n \in 1..MaxN :
       /\ T_dome' = LinspaceTo(T_atm, Tcrit, n)
       /\ vf_array' = Zeros(n)
       /\ vg_array' = Zeros(n)
  /\ i_dome' = 1
  /\ nset' = 0
  /\ ret' = next
  /\ pc' = "d_set0"

\* the call: the function's own handle and arrays; next is where it returns to.
\* 0.9999*Tcrit is the last level below Tcrit.
DomeEntry(next) ==
  /\ wl' = Water
  /\ \E n \in 1..MaxN :
       /\ T_dome' = LinspaceTo(T_atm, Tcrit - 1, n)
       /\ vf_array' = Zeros(n)
       /\ vg_array' = Zeros(n)
  /\ i_dome' = 1
  /\ nset' = 0
  /\ ret' = next
  /\ pc' = "d_set0"

\* Tv_vapor_dome() as a cell of its own
StartDome ==
  /\ pc = "idle"
  /\ DomeEntry("done")
  /\ cell' = "dome"
  /\ UNCHANGED <<err, w, state1, state2, state3, T_array, P_array, v_array, i, j, Tcut,
                 satVars, phaseVars, procVars, diagVars, introVars, plotted>>

\* mutant of SetLocal: the function sets the caller's handle w, not its own
SetLocalGlobal(kind, a, b, next) ==
  IF Valid(kind, a, b)
  THEN /\ w' = Handle(kind, a, b)
       /\ wl' = Handle(kind, a, b)
       /\ nset' = nset + 1
       /\ pc' = next
       /\ UNCHANGED err
  ELSE /\ Raise("out_of_range")
       /\ UNCHANGED <<w, wl, nset>>

\* a set on the function's own handle; the global w is another object
SetLocal(kind, a, b, next) ==
  IF Valid(kind, a, b)
  THEN /\ wl' = Handle(kind, a, b)
       /\ nset' = nset + 1
       /\ pc' = next
       /\ UNCHANGED <<err, w>>
  ELSE /\ Raise("out_of_range")
       /\ UNCHANGED <<w, wl, nset>>

DomeSet0 ==
  /\ pc = "d_set0"
  /\ i_dome <= Len(T_dome)
  /\ SetLocal("TX", T_dome[i_dome], 0, "d_vf")
  /\ UNCHANGED <<cell, state1, state2, state3, T_array, P_array, v_array, i, j, Tcut,
                 satVars, domeVars, phaseVars, procVars, diagVars, introVars, plotted>>

DomeReadVf ==
  /\ pc = "d_vf"
  /\ vf_array' = [vf_array EXCEPT ![i_dome] = VOf(wl)]
  /\ pc' = "d_set1"
  /\ UNCHANGED <<cell, err, handleVars, sweepVars, satVars, i_dome, T_dome, vg_array, ret,
                 phaseVars, procVars, diagVars, introVars, plotted>>

DomeSet1 ==
  /\ pc = "d_set1"
  /\ SetLocal("TX", T_dome[i_dome], QScale, "d_vg")
  /\ UNCHANGED <<cell, state1, state2, state3, T_array, P_array, v_array, i, j, Tcut,
                 satVars, domeVars, phaseVars, procVars, diagVars, introVars, plotted>>

DomeReadVg ==
  /\ pc = "d_vg"
  /\ vg_array' = [vg_array EXCEPT ![i_dome] = VOf(wl)]
  /\ i_dome' = i_dome + 1
  /\ pc' = "d_set0"
  /\ UNCHANGED <<cell, err, handleVars, sweepVars, satVars, T_dome, vf_array, ret,
                 phaseVars, procVars, diagVars, introVars, plotted>>

DomePlot ==
  /\ pc = "d_set0"
  /\ i_dome > Len(T_dome)
  /\ plotted' = <<vf_array, T_dome, vg_array, T_dome, <<vcrit>>, <<Tcrit>>>>
  /\ pc' = ret
  /\ UNCHANGED <<cell, err, handleVars, sweepVars, satVars, domeVars, phaseVars, procVars,
                 diagVars, introVars>>

(***************************************************************************)
(* An isobar:                                                              *)
(*   w = ct.Water()                                                        *)
(*   v_array = np.logspace(-3,2,101)                                       *)
(*   T_array = np.full_like(v_array,np.nan)                                *)
(*   for i in range(v_array.size):                                         *)
(*       w.PV = P, v_array[i]                                              *)
(*       if w.T > 600 + 273.15:                                            *)
(*           break                                                         *)
(*       T_array[i] = w.T                                                  *)
(*   plt.semilogx(v_array,T_array-273.15,'k')                              *)
(***************************************************************************)
StartIsobar ==
  /\ pc = "idle"
  /\ w' = Water
  /\ \E Vs \in VArrays, P \in {Pcrit, P_atm + 1, P_atm}, cut \in {TCut600, TCut400} :
       /\ v_array' = Vs
       /\ T_array' = FullNaN(Len(Vs))
       /\ P_array' = <<P>>
       /\ Tcut' = cut
  /\ i' = 1
  /\ nset' = 0
  /\ pc' = "iso_set"
  /\ cell' = "isobar"
  /\ UNCHANGED <<err, wl, state1, state2, state3, j, satVars, domeVars, phaseVars,
                 procVars, diagVars, introVars, plotted>>

IsoSet ==
  /\ pc = "iso_set"
  /\ i <= Len(v_array)
  /\ SetW("PV", P_array[1], v_array[i], "iso_check")
  /\ nset' = IF Valid("PV", P_array[1], v_array[i]) THEN nset + 1 ELSE nset
  /\ UNCHANGED <<cell, wl, state1, state2, state3, T_array, P_array, v_array, i, j, Tcut,
                 satVars, domeVars, phaseVars, procVars, diagVars, introVars, plotted>>

\* mutant of IsoCheck: the cut-off test left out, every temperature stored
IsoCheckNoBreak ==
  /\ pc = "iso_check"
  /\ T_array' = [T_array EXCEPT ![i] = TOf(w)]
  /\ i' = i + 1
  /\ pc' = "iso_set"
  /\ UNCHANGED <<cell, err, handleVars, P_array, v_array, j, nset, Tcut,
                 satVars, domeVars, phaseVars, procVars, diagVars, introVars, plotted>>

\* mutant of IsoCheck: a sample above the cut-off is skipped and the loop goes
\* on with the next one
IsoCheckContinue ==
  /\ pc = "iso_check"
  /\ IF TOf(w) > Tcut
     THEN /\ i' = i + 1
          /\ pc' = "iso_set"
          /\ UNCHANGED T_array
     ELSE /\ T_array' = [T_array EXCEPT ![i] = TOf(w)]
          /\ i' = i + 1
          /\ pc' = "iso_set"
  /\ UNCHANGED <<cell, err, handleVars, P_array, v_array, j, nset, Tcut,
                 satVars, domeVars, phaseVars, procVars, diagVars, introVars, plotted>>

\* if w.T > cut-off: break; else T_array[i] = w.T
IsoCheck ==
  /\ pc = "iso_check"
  /\ IF TOf(w) > Tcut
     THEN /\ pc' = "iso_plot"
          /\ UNCHANGED <<T_array, i>>
     ELSE /\ T_array' = [T_array EXCEPT ![i] = TOf(w)]
          /\ i' = i + 1
          /\ pc' = "iso_set"
  /\ UNCHANGED <<cell, err, handleVars, P_array, v_array, j, nset, Tcut,
                 satVars, domeVars, phaseVars, procVars, diagVars, introVars, plotted>>

\* the loop ran to the end of v_array
IsoEnd ==
  /\ pc = "iso_set"
  /\ i > Len(v_array)
  /\ pc' = "iso_plot"
  /\ UNCHANGED <<cell, err, handleVars, sweepVars, satVars, domeVars, phaseVars,
                 procVars, diagVars, introVars, plotted>>

IsoPlot ==
  /\ pc = "iso_plot"
  /\ plotted' = <<v_array, T_array>>
  /\ pc' = "done"
  /\ UNCHANGED <<cell, err, handleVars, sweepVars, satVars, domeVars, phaseVars, procVars,
                 diagVars, introVars>>

(***************************************************************************)
(* Determining the phase of a state given by (T, v) or (P, v):             *)
(*   w.TX = T, 0 ; print('v_f =',w.v)      (w.PX = P, 0 when P is given)   *)
(*   w.TX = T, 1 ; print('v_g =',w.v)                                      *)
(* and the conclusion drawn from v, v_f and v_g:                           *)
(*   "Since v < v_f, we conclude that the water is a compressed liquid."   *)
(*   "Since v > v_g, we conclude that the water is a superheated vapor."   *)
(*   "Since v_f < v < v_g, ... the water is a liquid-vapor mixture."       *)
(* The x = 0 state is the saturated liquid (its specific volume is v_f),   *)
(* the x = 1 state the saturated vapor (v_g).                              *)
(***************************************************************************)
\* mutant of PhasesOf: the comparisons with the envelope not strict, so that
\* the boundary states fall into the single-phase regions
PhasesOfInclusive(u, f, g) ==
  {ph \in {"compressed liquid", "saturated mixture", "superheated vapor"} :
     \/ ph = "compressed liquid" /\ u <= f
     \/ ph = "saturated mixture" /\ f < u /\ u < g
     \/ ph = "superheated vapor" /\ u >= g}

\* mutant of PhasesOf: the two single-phase regions exchanged
PhasesOfSwapped(u, f, g) ==
  {ph \in {"compressed liquid", "saturated liquid", "saturated mixture",
           "saturated vapor", "superheated vapor"} :
     \/ ph = "superheated vapor" /\ u < f
     \/ ph = "saturated liquid" /\ u = f
     \/ ph = "saturated mixture" /\ f < u /\ u < g
     \/ ph = "saturated vapor" /\ u = g
     \/ ph = "compressed liquid" /\ u > g}

\* mutant of PhasesOf: the mixture rule includes the two boundary states
PhasesOfMixtureClosed(u, f, g) ==
  {ph \in {"compressed liquid", "saturated liquid", "saturated mixture",
           "saturated vapor", "superheated vapor"} :
     \/ ph = "compressed liquid" /\ u < f
     \/ ph = "saturated liquid" /\ u = f
     \/ ph = "saturated mixture" /\ f <= u /\ u <= g
     \/ ph = "saturated vapor" /\ u = g
     \/ ph = "superheated vapor" /\ u > g}

\* the phases the notebook's rules give a state of specific volume u
PhasesOf(u, f, g) ==
  {ph \in {"compressed liquid", "saturated liquid", "saturated mixture",
           "saturated vapor", "superheated vapor"} :
     \/ ph = "compressed liquid" /\ u < f
     \/ ph = "saturated liquid" /\ u = f
     \/ ph = "saturated mixture" /\ f < u /\ u < g
     \/ ph = "saturated vapor" /\ u = g
     \/ ph = "superheated vapor" /\ u > g}

\* mutants of Quality: v_f not subtracted in the numerator; v_f not subtracted
\* in the denominator
QualityNoOffset(u, f, g) == [num |-> u, den |-> g - f]
QualityDenG(u, f, g) == [num |-> u - f, den |-> g]

\* x = (v-vf)/(vg-vf), kept as the fraction num/den
Quality(u, f, g) == [num |-> u - f, den |-> g - f]

StartPhase ==
  /\ pc = "idle"
  /\ w' = Water
  /\ \E b \in {"T", "P"}, vv \in VInputs :
       \E a \in (IF b = "T" THEN TMinValid..(Tcrit + 1) ELSE 1..(Pcrit + 1)) :
         /\ by' = b
         /\ at' = a
         /\ v' = vv
  /\ pc' = "ph_set0"
  /\ cell' = "tryit"
  /\ UNCHANGED <<err, wl, state1, state2, state3, sweepVars, satVars, domeVars, phase, x,
                 part, phases, procVars, diagVars, introVars, plotted>>

\* "Try it!": parts a, b and c, one after the other on one handle
StartExamples ==
  /\ pc = "idle"
  /\ w' = Water
  /\ part' = 1
  /\ by' = Examples[1].by
  /\ at' = Examples[1].at
  /\ v' = Examples[1].v
  /\ pc' = "ph_set0"
  /\ cell' = "tryit"
  /\ UNCHANGED <<err, wl, state1, state2, state3, sweepVars, satVars, domeVars, phase, x,
                 phases, procVars, diagVars, introVars, plotted>>

\* mutant of SatKind: the saturated states always set by temperature
SatKindTX == "TX"

\* the pair that fixes the saturated state of quality q at the given T or P
SatKind == IF by = "T" THEN "TX" ELSE "PX"

PhSet0 ==
  /\ pc = "ph_set0"
  /\ SetW(SatKind, at, 0, "ph_vf")
  /\ UNCHANGED <<cell, wl, state1, state2, state3, sweepVars, satVars, domeVars, phaseVars,
                 procVars, diagVars, introVars, plotted>>

PhReadVf ==
  /\ pc = "ph_vf"
  /\ vf' = VOf(w)
  /\ pc' = "ph_set1"
  /\ UNCHANGED <<cell, err, handleVars, sweepVars, Tsat, vhalf, vg, domeVars, phaseVars,
                 procVars, diagVars, introVars, plotted>>

\* mutant of PhSet1: the second query asks for the saturated liquid again
PhSet1Liquid ==
  /\ pc = "ph_set1"
  /\ SetW(SatKind, at, 0, "ph_vg")
  /\ UNCHANGED <<cell, wl, state1, state2, state3, sweepVars, satVars, domeVars, phaseVars,
                 procVars, diagVars, introVars, plotted>>

PhSet1 ==
  /\ pc = "ph_set1"
  /\ SetW(SatKind, at, QScale, "ph_vg")
  /\ UNCHANGED <<cell, wl, state1, state2, state3, sweepVars, satVars, domeVars, phaseVars,
                 procVars, diagVars, introVars, plotted>>

PhReadVg ==
  /\ pc = "ph_vg"
  /\ vg' = VOf(w)
  /\ pc' = IF cell = "tryit" THEN "ph_conclude" ELSE "q_x"
  /\ UNCHANGED <<cell, err, handleVars, sweepVars, Tsat, vf, vhalf, domeVars, phaseVars,
                 procVars, diagVars, introVars, plotted>>

\* the conclusion; for a mixture the quality cell follows:
\*   v = 10 ; w.TX = T, 0 ; vf = w.v ; w.TX = T, 1 ; vg = w.v ; x = (v-vf)/(vg-vf)
PhConclude ==
  /\ pc = "ph_conclude"
  /\ \E ph \in PhasesOf(v, vf, vg) :
       /\ phase' = ph
       /\ phases' = IF part > 0 THEN Append(phases, ph) ELSE phases
       /\ IF part \in 1..(Len(Examples) - 1)
          THEN cell' = cell /\ pc' = "ph_next"
          ELSE IF ph = "saturated mixture"
               THEN cell' = "quality" /\ pc' = "ph_set0"
               ELSE cell' = cell /\ pc' = "done"
  /\ UNCHANGED <<err, handleVars, sweepVars, satVars, domeVars, by, at, v, x, part,
                 procVars, diagVars, introVars, plotted>>

\* the next part of "Try it!": its T or P and its v, on the same handle
PhNext ==
  /\ pc = "ph_next"
  /\ part' = part + 1
  /\ by' = Examples[part + 1].by
  /\ at' = Examples[part + 1].at
  /\ v' = Examples[part + 1].v
  /\ phase' = "none"
  /\ pc' = "ph_set0"
  /\ UNCHANGED <<cell, err, handleVars, sweepVars, satVars, domeVars, x, phases,
                 procVars, diagVars, introVars, plotted>>

QualityX ==
  /\ pc = "q_x"
  /\ IF vg - vf = 0
     THEN /\ Raise("zero_division")
          /\ UNCHANGED x
     ELSE /\ x' = Quality(v, vf, vg)
          /\ pc' = "done"
          /\ UNCHANGED err
  /\ UNCHANGED <<cell, handleVars, sweepVars, satVars, domeVars, by, at, v, phase,
                 part, phases, procVars, diagVars, introVars, plotted>>

(***************************************************************************)
(* The rigid-tank process and the phase of state 1:                        *)
(*   state1 = ct.Water() ; state1.TP = T1, P1 ; v1 = state1.v              *)
(*   v2 = v1 ; state2 = ct.Water() ; state2.TV = T2, v2 ; P2 = state2.P    *)
(* "state 1 is at a temperature above the critical temperature, and at a  *)
(*  pressure lower than the critical pressure.  Thus, it is a superheated  *)
(*  vapor."                                                                *)
(***************************************************************************)
\* mutant of PhaseByCritical: any state above the critical temperature or the
\* critical pressure called supercritical
PhaseByCriticalSupercritical(T, P) ==
  IF T > Tcrit \/ P > Pcrit THEN "supercritical" ELSE "none"

\* the phase the notebook concludes from T and P against the critical point
PhaseByCritical(T, P) ==
  IF T > Tcrit /\ P < Pcrit THEN "superheated vapor" ELSE "none"

ProcSet1 ==
  /\ pc = "idle"
  /\ cell' = "process"
  /\ \E T \in (Tcrit - 1)..(TMaxValid + 1), P \in (P_atm + 1)..PMaxValid :
       /\ T1' = T
       /\ P1' = P
       /\ IF Valid("TP", T, P)
          THEN /\ state1' = Handle("TP", T, P)
               /\ pc' = "p_v1"
               /\ UNCHANGED err
          ELSE /\ Raise("out_of_range")
               /\ UNCHANGED state1
  /\ UNCHANGED <<w, wl, state2, state3, sweepVars, satVars, domeVars, phaseVars,
                 v1, T2, P2, T3, diagVars, introVars, plotted>>

ProcReadV1 ==
  /\ pc = "p_v1"
  /\ v1' = VOf(state1)
  /\ pc' = "p_set2"
  /\ UNCHANGED <<cell, err, handleVars, sweepVars, satVars, domeVars, phaseVars, T1, P1,
                 T2, P2, T3, diagVars, introVars, plotted>>

\* mutant of ProcSet2: state2 is the object state1 names, not a new one
ProcSet2Aliased ==
  /\ pc = "p_set2"
  /\ \E T \in {T_atm + 1, T_atm + 2} :
       /\ T2' = T
       /\ IF Valid("TV", T, v1)
          THEN /\ state2' = Handle("TV", T, v1)
               /\ state1' = Handle("TV", T, v1)
               /\ pc' = "p_P2"
               /\ UNCHANGED err
          ELSE /\ Raise("out_of_range")
               /\ UNCHANGED <<state1, state2>>
  /\ UNCHANGED <<cell, w, wl, state3, sweepVars, satVars, domeVars, phaseVars,
                 T1, P1, v1, P2, T3, diagVars, introVars, plotted>>

ProcSet2 ==
  /\ pc = "p_set2"
  /\ \E T \in {T_atm + 1, T_atm + 2} :
       /\ T2' = T
       /\ IF Valid("TV", T, v1)
          THEN /\ state2' = Handle("TV", T, v1)
               /\ pc' = "p_P2"
               /\ UNCHANGED err
          ELSE /\ Raise("out_of_range")
               /\ UNCHANGED state2
  /\ UNCHANGED <<cell, w, wl, state1, state3, sweepVars, satVars, domeVars, phaseVars,
                 T1, P1, v1, P2, T3, diagVars, introVars, plotted>>

ProcReadP2 ==
  /\ pc = "p_P2"
  /\ P2' = POf(state2)
  /\ pc' = "p_phase1"
  /\ UNCHANGED <<cell, err, handleVars, sweepVars, satVars, domeVars, phaseVars, T1, P1,
                 v1, T2, T3, diagVars, introVars, plotted>>

ProcPhase1 ==
  /\ pc = "p_phase1"
  /\ phase' = PhaseByCritical(TOf(state1), POf(state1))
  /\ pc' = "done"
  /\ UNCHANGED <<cell, err, handleVars, sweepVars, satVars, domeVars, by, at, v, x,
                 part, phases, procVars, diagVars, introVars, plotted>>

(***************************************************************************)
(* The cells that plot the process:                                        *)
(*   Tv_vapor_dome() ; Tv_diagram(state1,state2)                           *)
(* and, with the third state,                                              *)
(*   state3 = ct.Water() ; v3 = v2 ; P3 = 100e3 ; state3.PV = P3, v3       *)
(*   T3 = state3.T                                                         *)
(*   Tv_vapor_dome() ; Tv_diagram(state1,state2,state3)                    *)
(***************************************************************************)
ProcSet3 ==
  /\ pc = "p_phase1"
  /\ cell' = "state3"
  /\ IF Valid("PV", P3, v1)
     THEN /\ state3' = Handle("PV", P3, v1)
          /\ pc' = "p_T3"
          /\ UNCHANGED err
     ELSE /\ Raise("out_of_range")
          /\ UNCHANGED state3
  /\ UNCHANGED <<w, wl, state1, state2, sweepVars, satVars, domeVars, phaseVars,
                 procVars, diagVars, introVars, plotted>>

ProcReadT3 ==
  /\ pc = "p_T3"
  /\ T3' = TOf(state3)
  /\ pc' = "p_dome"
  /\ UNCHANGED <<cell, err, handleVars, sweepVars, satVars, domeVars, phaseVars,
                 T1, P1, v1, T2, P2, diagVars, introVars, plotted>>

\* Tv_vapor_dome() called before Tv_diagram
ProcCallDome ==
  /\ pc \in {"p_phase1", "p_dome"}
  /\ DomeEntry("tv_diagram")
  /\ cell' = IF pc = "p_phase1" THEN "diagram" ELSE cell
  /\ UNCHANGED <<err, w, state1, state2, state3, T_array, P_array, v_array, i, j, Tcut,
                 satVars, phaseVars, procVars, diagVars, introVars, plotted>>

(***************************************************************************)
(* def Tv_diagram( *args ):  (any number of handles)                    *)
(*     T_states = np.zeros(len(args),)                                     *)
(*     v_states = np.zeros(len(args),)                                     *)
(*     for i in range(len(args)):                                          *)
(*         T_states[i] = args[i].T                                         *)
(*         v_states[i] = args[i].v                                         *)
(*         plt.text(v_states[i],T_states[i]-273.15,' '+str(i+1),...)       *)
(*     plt.semilogx(v_states,T_states-273.15,'bo-',linewidth=2)            *)
(* Sequences are indexed from 1: the index k stands for Python's i = k - 1.*)
(***************************************************************************)
\* the handle a name of the notebook refers to
HandleOf(name) ==
  CASE name = "state1" -> state1
    [] name = "state2" -> state2
    [] name = "state3" -> state3

\* the argument lists Tv_diagram is called with when the first n states exist
ArgLists(n) ==
  {<< >>, <<"state1">>, <<"state1", "state2">>, <<"state2", "state1">>}
    \cup (IF n >= 3
          THEN {<<"state1", "state2", "state3">>, <<"state3", "state1", "state2">>}
          ELSE {})

\* mutant of DiagLabel: the points numbered from 0
DiagLabelFromZero(k) == k - 1

\* str(i+1) for the argument at index k (Python's i = k - 1)
DiagLabel(k) == (k - 1) + 1

DiagStart ==
  /\ pc = "tv_diagram"
  /\ \E a \in ArgLists(IF cell = "diagram" THEN 2 ELSE 3) :
       /\ args' = a
       /\ T_states' = Zeros(Len(a))
       /\ v_states' = Zeros(Len(a))
  /\ i_diag' = 1
  /\ labels' = << >>
  /\ reads' = << >>
  /\ pc' = "diag_T"
  /\ UNCHANGED <<cell, err, handleVars, sweepVars, satVars, domeVars, phaseVars,
                 procVars, introVars, plotted>>

DiagReadT ==
  /\ pc = "diag_T"
  /\ i_diag <= Len(args)
  /\ T_states' = [T_states EXCEPT ![i_diag] = TOf(HandleOf(args[i_diag]))]
  /\ reads' = Append(reads, [h |-> args[i_diag], p |-> "T"])
  /\ pc' = "diag_v"
  /\ UNCHANGED <<cell, err, handleVars, sweepVars, satVars, domeVars, phaseVars,
                 procVars, args, v_states, i_diag, labels, introVars, plotted>>

DiagReadV ==
  /\ pc = "diag_v"
  /\ v_states' = [v_states EXCEPT ![i_diag] = VOf(HandleOf(args[i_diag]))]
  /\ reads' = Append(reads, [h |-> args[i_diag], p |-> "v"])
  /\ pc' = "diag_text"
  /\ UNCHANGED <<cell, err, handleVars, sweepVars, satVars, domeVars, phaseVars,
                 procVars, args, T_states, i_diag, labels, introVars, plotted>>

DiagText ==
  /\ pc = "diag_text"
  /\ labels' = Append(labels, [v |-> v_states[i_diag], T |-> T_states[i_diag],
                                text |-> DiagLabel(i_diag)])
  /\ i_diag' = i_diag + 1
  /\ pc' = "diag_T"
  /\ UNCHANGED <<cell, err, handleVars, sweepVars, satVars, domeVars, phaseVars,
                 procVars, args, T_states, v_states, reads, introVars, plotted>>

DiagPlot ==
  /\ pc = "diag_T"
  /\ i_diag > Len(args)
  /\ plotted' = <<v_states, T_states>>
  /\ pc' = "done"
  /\ UNCHANGED <<cell, err, handleVars, sweepVars, satVars, domeVars, phaseVars,
                 procVars, diagVars, introVars>>

Next ==
  \/ PlainSetTP
  \/ ReadDensity
  \/ InvReadV
  \/ InvReadDensity
  \/ StartSweep1D
  \/ Sweep1DSet
  \/ Sweep1DRead
  \/ Sweep1DPlot
  \/ StartSweep2D
  \/ Sweep2DSet
  \/ Sweep2DRead
  \/ Sweep2DPlot
  \/ StartSat
  \/ SatSetTP
  \/ SatReadTsat
  \/ SatSetPX0
  \/ SatReadVf
  \/ SatSetPXhalf
  \/ SatReadVhalf
  \/ SatSetPX1
  \/ SatReadVg
  \/ SatArrays
  \/ SatPlot
  \/ StartDome
  \/ DomeSet0
  \/ DomeReadVf
  \/ DomeSet1
  \/ DomeReadVg
  \/ DomePlot
  \/ StartIsobar
  \/ IsoSet
  \/ IsoCheck
  \/ IsoEnd
  \/ IsoPlot
  \/ StartPhase
  \/ StartExamples
  \/ PhSet0
  \/ PhReadVf
  \/ PhSet1
  \/ PhReadVg
  \/ PhConclude
  \/ PhNext
  \/ QualityX
  \/ ProcSet1
  \/ ProcReadV1
  \/ ProcSet2
  \/ ProcReadP2
  \/ ProcPhase1
  \/ ProcSet3
  \/ ProcReadT3
  \/ ProcCallDome
  \/ DiagStart
  \/ DiagReadT
  \/ DiagReadV
  \/ DiagText
  \/ DiagPlot

Spec == Init /\ [][Next]_vars

\* a cell that has been started runs on: the interpreter executes the next
\* statement as long as there is one
LiveSpec == Spec /\ WF_vars(Next)

(***************************************************************************)
(* Properties.                                                             *)
(***************************************************************************)
\* the saturation envelope at the temperature or pressure a phase
\* determination is given
EnvT == IF by = "T" THEN at ELSE TsatP(at)
\* a phase has been concluded from v and the envelope (vf, vg)
Concluded == cell \in {"tryit", "quality"} /\ phase # "none"

\* C1: a state of specific volume v, checked against the saturation envelope
\* (vf, vg), vf < vg, taken at the state's own temperature or pressure, is
\* concluded to be a compressed liquid if v < vf, a saturated liquid if
\* v = vf, a mixture if vf < v < vg, a saturated vapor if v = vg and a
\* superheated vapor if v > vg.
C1_PhaseClassification ==
  (Concluded /\ vf < vg) =>
    /\ vf = VfT(EnvT) /\ vg = VgT(EnvT)
    /\ (v < vf => phase = "compressed liquid")
    /\ (v = vf => phase = "saturated liquid")
    /\ (vf < v /\ v < vg => phase = "saturated mixture")
    /\ (v = vg => phase = "saturated vapor")
    /\ (v > vg => phase = "superheated vapor")

C1_Witness == Concluded /\ vf < vg /\ v = vf /\ phase = "saturated liquid"

\* C2 as stated: a state with T > Tcrit or P > Pcrit is classified as
\* supercritical.
C2_Original ==
  (cell = "process" /\ pc = "done"
     /\ (TOf(state1) > Tcrit \/ POf(state1) > Pcrit)) => phase = "supercritical"

\* C2 as amended: state 1, whose temperature is above the critical temperature
\* and whose pressure is below the critical pressure, is concluded to be a
\* superheated vapor, whatever its specific volume; no state is ever concluded
\* to be supercritical.
C2_SuperheatedAboveTcrit ==
  /\ (cell = "process" /\ pc = "done" /\ TOf(state1) > Tcrit /\ POf(state1) < Pcrit)
       => phase = "superheated vapor"
  /\ phase # "supercritical"

C2_Witness ==
  /\ cell = "process" /\ pc = "done"
  /\ TOf(state1) > Tcrit /\ POf(state1) < Pcrit
  /\ phase = "superheated vapor"

\* the pressure of the saturation points being computed
SatP == P_array[j]
\* the positions at which a captured saturation value has been read
AfterTsat == {"sat_px0", "sat_vf", "sat_pxh", "sat_vhalf", "sat_px1", "sat_vg",
              "sat_arrays", "sat_plot"}
AfterVf == {"sat_pxh", "sat_vhalf", "sat_px1", "sat_vg", "sat_arrays", "sat_plot"}
AfterVhalf == {"sat_px1", "sat_vg", "sat_arrays", "sat_plot"}
AfterVg == {"sat_arrays", "sat_plot"}

\* C3: a handle holds the one state last set on it, and every captured value
\* is read while the handle holds the state of the value's own pair: at each
\* read the handle holds that pair, and each value captured so far
\* (v_array[i], v_array[i,j], Tsat, vf, vhalf, vg, vf_array[i], vg_array[i])
\* is the property of the state fixed by its own pair.
C3_ReadBetweenOwnSetAndNext ==
  /\ pc = "s1_read" => w = Handle("TP", T_array[i], P_array[1])
  /\ pc = "s2_read" => w = Handle("TP", T_array[i], P_array[j])
  /\ pc = "sat_tsat" => w = Handle("TP", T_atm, SatP)
  /\ pc = "sat_vf" => w = Handle("PX", SatP, 0)
  /\ pc = "sat_vhalf" => w = Handle("PX", SatP, QHalf)
  /\ pc = "sat_vg" => w = Handle("PX", SatP, QScale)
  /\ pc = "d_vf" => wl = Handle("TX", T_dome[i_dome], 0)
  /\ pc = "d_vg" => wl = Handle("TX", T_dome[i_dome], QScale)
  /\ pc \in {"s1_set", "s1_read"} =>
       \A k \in 1..(i - 1) : v_array[k] = VofTP(T_array[k], P_array[1])
  /\ pc \in {"s2_set", "s2_read"} =>
       \A k \in 1..Len(T_array), l \in 1..Len(P_array) :
         (k < i \/ (k = i /\ l < j)) => v_array[k][l] = VofTP(T_array[k], P_array[l])
  /\ pc \in AfterTsat => Tsat = TsatP(SatP)
  /\ pc \in AfterVf => vf = VfT(TsatP(SatP))
  /\ pc \in AfterVhalf => vhalf = VofTX(TsatP(SatP), QHalf)
  /\ pc \in AfterVg => vg = VgT(TsatP(SatP))
  /\ pc \in {"d_set0", "d_vf", "d_set1", "d_vg"} =>
       \A k \in 1..Len(T_dome) :
         /\ (k < i_dome \/ (k = i_dome /\ pc \in {"d_set1", "d_vg"}))
              => vf_array[k] = VfT(T_dome[k])
         /\ k < i_dome => vg_array[k] = VgT(T_dome[k])

\* the saturation points of the last of three pressures have been captured
\* on the handle that held those of the two pressures before
C3_Witness ==
  /\ cell = "tv2" /\ pc = "sat_plot" /\ j = 3
  /\ vf = VfT(TsatP(P_array[3])) /\ vf # VfT(TsatP(P_array[2]))

\* C4: a sweep over N samples issues exactly one set operation per sample and
\* yields a result sequence of length N whose entry i is the result for
\* sample i; a sweep over N temperatures and M pressures yields N rows of M
\* entries, entry [i,j] the result for temperature i at pressure j, each
\* written once (the entries not yet written still hold their initial 0).
C4_OneQueryPerSample ==
  /\ (cell \in {"tv1", "sat"} /\ pc \in {"s1_set", "s1_read", "done"}) =>
       /\ Len(v_array) = Len(T_array)
       /\ nset = (IF pc = "s1_read" THEN i ELSE i - 1)
       /\ \A k \in 1..Len(T_array) :
            v_array[k] = (IF k < i THEN VofTP(T_array[k], P_array[1]) ELSE 0)
       /\ pc = "done" => nset = Len(T_array) /\ plotted[1] = v_array
  /\ (cell = "tv2" /\ pc \in {"s2_set", "s2_read"}) =>
       /\ Len(v_array) = Len(T_array)
       /\ nset = (i - 1) * Len(P_array) + (IF pc = "s2_read" THEN j ELSE j - 1)
       /\ \A k \in 1..Len(T_array) :
            /\ Len(v_array[k]) = Len(P_array)
            /\ \A l \in 1..Len(P_array) :
                 v_array[k][l] = (IF k < i \/ (k = i /\ l < j)
                                  THEN VofTP(T_array[k], P_array[l]) ELSE 0)
  /\ (cell = "tv2" /\ plotted # << >>) =>
       /\ nset = Len(T_array) * Len(P_array)
       /\ \A k \in 1..Len(T_array), l \in 1..Len(P_array) :
            v_array[k][l] = VofTP(T_array[k], P_array[l])

\* a sweep over MaxN temperatures and three pressures has been plotted
C4_Witness ==
  /\ cell = "tv2" /\ plotted # << >>
  /\ Len(T_array) = MaxN /\ Len(P_array) = 3
  /\ nset = 3 * MaxN

\* C5 as stated: a sample the provider fails on does not abort the sweep.
C5_Original ==
  /\ (cell \in {"tv1", "sat"} /\ pc \in {"s1_set", "raised"} /\ i <= Len(T_array)
        /\ ~Valid("TP", T_array[i], P_array[1])) => pc # "raised"
  /\ (cell = "tv2" /\ pc \in {"s2_set", "raised"} /\ i <= Len(T_array)
        /\ ~Valid("TP", T_array[i], P_array[j])) => pc # "raised"

\* C5 as amended: a sample the provider fails on raises, and the exception
\* ends the sweep at that sample: no later sample is queried, the entries of
\* the samples before it keep their results, its own entry and the later ones
\* keep their initial value (0; NaN in an isobar loop) and nothing is plotted.
\* A sweep that is plotted had no failing sample.
C5_FailureAbortsSweep ==
  /\ (cell \in {"tv1", "sat"} /\ pc = "raised") =>
       /\ err = "out_of_range" /\ plotted = << >>
       /\ i <= Len(T_array) /\ ~Valid("TP", T_array[i], P_array[1])
       /\ nset = i - 1
       /\ \A k \in 1..Len(T_array) :
            v_array[k] = (IF k < i THEN VofTP(T_array[k], P_array[1]) ELSE 0)
  /\ (cell \in {"tv1", "sat"} /\ pc = "done") =>
       \A k \in 1..Len(T_array) : Valid("TP", T_array[k], P_array[1])
  /\ (cell = "tv2" /\ pc = "raised") =>
       /\ err = "out_of_range" /\ plotted = << >>
       /\ i <= Len(T_array) /\ ~Valid("TP", T_array[i], P_array[j])
       /\ nset = (i - 1) * Len(P_array) + j - 1
       /\ \A k \in 1..Len(T_array), l \in 1..Len(P_array) :
            v_array[k][l] = (IF k < i \/ (k = i /\ l < j)
                             THEN VofTP(T_array[k], P_array[l]) ELSE 0)
  /\ (cell = "tv2" /\ plotted # << >>) =>
       \A k \in 1..Len(T_array), l \in 1..Len(P_array) :
         Valid("TP", T_array[k], P_array[l])
  /\ (cell = "isobar" /\ pc = "raised") =>
       /\ err = "out_of_range" /\ plotted = << >>
       /\ i <= Len(v_array) /\ ~Valid("PV", P_array[1], v_array[i])
       /\ nset = i - 1
       /\ \A k \in i..Len(v_array) : T_array[k] = NaN

\* the third sample of a sweep failed after two samples were stored
C5_Witness ==
  /\ cell = "tv1" /\ pc = "raised" /\ i = 3
  /\ v_array[2] = VofTP(T_array[2], P_array[1]) /\ v_array[3] = 0

\* C6: a query the provider fails on is surfaced as an out-of-range
\* exception that ends the cell; every phase concluded, every quality
\* computed and every pressure stored comes from queries the provider
\* answered, never from a default standing in for a failed one.
C6_FailureSurfaced ==
  /\ (pc = "raised") = (err # "none")
  /\ pc = "raised" => err = "out_of_range"
  /\ (cell \in {"tryit", "quality"}
        /\ (pc \in {"ph_vf", "ph_set1", "ph_vg", "ph_conclude", "q_x", "done"}
              \/ phase # "none")) => Valid(SatKind, at, 0)
  /\ (cell \in {"tryit", "quality"}
        /\ (pc \in {"ph_vg", "ph_conclude", "q_x", "done"} \/ phase # "none"))
       => Valid(SatKind, at, QScale)
  /\ Concluded => vf = VfT(EnvT) /\ vg = VgT(EnvT)
  /\ x.den # 0 => Concluded /\ Valid(SatKind, at, 0) /\ Valid(SatKind, at, QScale)
  /\ (cell = "tryit" /\ pc = "raised") => phase = "none" /\ x.den = 0
  /\ (cell = "process" /\ pc \in {"p_P2", "p_phase1", "done"}) =>
       /\ state2.kind = "TV" /\ state2.b = v1
       /\ Valid("TV", state2.a, state2.b)
  /\ P2 # 0 => P2 = PofTV(state2.a, v1) /\ P2 \in 1..PMaxValid
  /\ (cell = "process" /\ pc = "raised") => P2 = 0 /\ phase = "none"

\* a phase determination whose first query failed: raised, nothing concluded
C6_Witness ==
  /\ cell = "tryit" /\ pc = "raised" /\ err = "out_of_range"
  /\ ~Valid(SatKind, at, 0)
  /\ phase = "none" /\ x.den = 0

\* whether a sequence holds a NaN
HasNaN(seq) == \E k \in 1..Len(seq) : seq[k] = NaN

PhaseRank(ph) ==
  CASE ph = "compressed liquid" -> 1
    [] ph \in {"saturated liquid", "saturated mixture", "saturated vapor"} -> 2
    [] ph = "superheated vapor" -> 3

\* C10: against one envelope (vf, vg), the phase is monotonic in v: for
\* v1 <= v2 the phase of v1 never comes after the phase of v2 in the order
\* compressed liquid, saturated mixture, superheated vapor.
C10_PhaseMonotonicInV ==
  Concluded =>
    /\ \A u1 \in VInputs, u2 \in VInputs :
         u1 <= u2 =>
           \A p1 \in PhasesOf(u1, vf, vg), p2 \in PhasesOf(u2, vf, vg) :
             PhaseRank(p1) <= PhaseRank(p2)
    /\ \A u \in VInputs :
         \A p \in PhasesOf(u, vf, vg) :
           /\ u <= v => PhaseRank(p) <= PhaseRank(phase)
           /\ u >= v => PhaseRank(p) >= PhaseRank(phase)

\* a superheated vapor concluded against an envelope below which, inside
\* which and above which specific volumes lie
C10_Witness ==
  /\ Concluded /\ vf < vg /\ phase = "superheated vapor"
  /\ \E u1 \in VInputs, u2 \in VInputs : u1 < vf /\ vf < u2 /\ u2 < vg

\* C11: the three states of "Try it!" are concluded as stated, each against
\* the envelope at its own temperature or pressure: a (T = 25 C, v = 0.001001)
\* is a compressed liquid, b (P = 1 MPa, v = 0.32) a superheated vapor, and
\* c (T = 50 C, v = 10) a mixture, whose quality is then computed and lies
\* strictly between 0 and 1.
C11_WorkedExamples ==
  /\ (part = 1 /\ phase # "none") =>
       /\ vf = VfT(T_a) /\ vg = VgT(T_a) /\ v = v_a /\ v < vf
       /\ phase = "compressed liquid"
  /\ (part = 2 /\ phase # "none") =>
       /\ vf = VfT(TsatP(P_b)) /\ vg = VgT(TsatP(P_b)) /\ v = v_b /\ v > vg
       /\ phase = "superheated vapor"
  /\ (part = 3 /\ phase # "none") =>
       /\ vf = VfT(T_c) /\ vg = VgT(T_c) /\ v = v_c /\ vf < v /\ v < vg
       /\ phase = "saturated mixture"
  /\ part > 0 =>
       /\ Len(phases) = (IF phase = "none" THEN part - 1 ELSE part)
       /\ \A k \in 1..Len(phases) :
            phases[k] = <<"compressed liquid", "superheated vapor",
                          "saturated mixture">>[k]
  /\ (part = 3 /\ pc = "done") =>
       /\ cell = "quality"
       /\ x.den = VgT(T_c) - VfT(T_c) /\ x.num = v_c - VfT(T_c)
       /\ 0 < x.num /\ x.num < x.den

C11_Witness ==
  /\ part = 3 /\ cell = "quality" /\ pc = "done"
  /\ phases = <<"compressed liquid", "superheated vapor", "saturated mixture">>
  /\ 0 < x.num /\ x.num < x.den

\* C12: every pair (vf, vg) the program obtains from a (P, x=0)/(P, x=1) or
\* (T, x=0)/(T, x=1) pair of queries has vf <= vg, and vf = vg only when the
\* pair is taken at (or above) the critical point: the saturation points at
\* the pressures of P_array, the samples of Tv_vapor_dome, and the envelope a
\* phase is concluded against.
C12_EnvelopeOrdered ==
  /\ pc \in AfterVg =>
       /\ vf <= vg
       /\ vf = vg => SatP >= Pcrit
  /\ pc \in {"d_set0", "d_vf", "d_set1", "d_vg"} =>
       \A k \in 1..(i_dome - 1) :
         /\ vf_array[k] <= vg_array[k]
         /\ vf_array[k] = vg_array[k] => T_dome[k] >= Tcrit
  /\ (pc = "ph_conclude" \/ Concluded) =>
       /\ vf <= vg
       /\ vf = vg => EnvT >= Tcrit
       /\ EnvT < Tcrit => vf < vg

\* an envelope read at the critical pressure: it has collapsed to a point
C12_Witness ==
  /\ pc = "ph_conclude" /\ by = "P" /\ at = Pcrit
  /\ vf = vg /\ vf = vcrit

\* C13: whatever sets were made on the handle before, the density read from
\* it is that of the state it holds now: the inverse of the density printed
\* equals the specific volume printed from the same handle, also when a
\* density was printed from an earlier state of the handle.
C13_DensityInverseOfV ==
  /\ (cell = "inverse" /\ pc = "done") =>
       /\ v_spec = VOf(w)
       /\ inv_rho.den # 0
       /\ inv_rho.num = v_spec * inv_rho.den
  /\ (pc = "idle" /\ rho.den # 0) =>
       \E T \in {T_atm, T_atm + 2} : rho.num * VofTP(T, P_atm) = rho.den

\* the density was printed at 15 C, the handle then set to another state and
\* the specific volume and the inverse of density printed from it
C13_Witness ==
  /\ cell = "inverse" /\ pc = "done"
  /\ rho.den # 0 /\ rho.den # rho.num * v_spec
  /\ inv_rho.num = v_spec * inv_rho.den

\* the positions inside Tv_diagram, and after it
DiagPcs == {"diag_T", "diag_v", "diag_text"}
InDiagram == pc \in DiagPcs \/ (cell \in {"diagram", "state3"} /\ pc = "done")

\* C14: Tv_diagram, called with any number n >= 0 of handles, reads the
\* temperature and then the specific volume of each argument exactly once, in
\* argument order: T_states[k] and v_states[k] are the values of the k-th
\* argument, the point (v_states[k], T_states[k]) is labelled k, the arrays
\* plotted have length n; and no step of Tv_diagram changes the state of a
\* handle.
C14_TvDiagramAnyN ==
  /\ [](InDiagram =>
          /\ Len(T_states) = Len(args) /\ Len(v_states) = Len(args)
          /\ i_diag \in 1..(Len(args) + 1)
          /\ Len(labels) = i_diag - 1
          /\ \A k \in 1..(i_diag - 1) :
               /\ T_states[k] = TOf(HandleOf(args[k]))
               /\ v_states[k] = VOf(HandleOf(args[k]))
               /\ labels[k] = [v |-> v_states[k], T |-> T_states[k], text |-> k]
          /\ \A k \in (i_diag + 1)..Len(args) : T_states[k] = 0 /\ v_states[k] = 0
          /\ Len(reads) = 2 * (i_diag - 1)
                            + (CASE pc = "diag_v" -> 1 [] pc = "diag_text" -> 2 [] OTHER -> 0)
          /\ \A m \in 1..Len(reads) :
               reads[m] = [h |-> args[(m + 1) \div 2],
                           p |-> IF m % 2 = 1 THEN "T" ELSE "v"]
          /\ pc = "done" =>
               /\ i_diag = Len(args) + 1
               /\ Len(reads) = 2 * Len(args)
               /\ plotted = <<v_states, T_states>>)
  /\ [][(pc \in DiagPcs) => UNCHANGED handleVars]_vars

\* a diagram of three states passed in another order than they were created
C14_Witness ==
  /\ cell = "state3" /\ pc = "done"
  /\ args = <<"state3", "state1", "state2">>
  /\ T_states = <<T3, T1, T2>> /\ T3 # T1 /\ T1 # T2
  /\ labels[1].text = 1 /\ labels[3].text = 3

\* the positions inside Tv_vapor_dome
DomePcs == {"d_set0", "d_vf", "d_set1", "d_vg"}

\* C15: Tv_vapor_dome samples temperatures from 15 C up to just below the
\* critical temperature, never Tcrit or above; for every sample k, vf_array[k]
\* is the specific volume read after setting (T_array[k], x=0) and vg_array[k]
\* the one read after setting (T_array[k], x=1), both at the same temperature.
C15_DomeBelowCritical ==
  /\ \A k \in 1..Len(T_dome) : T_atm <= T_dome[k] /\ T_dome[k] < Tcrit
  /\ Len(T_dome) > 0 => T_dome[1] = T_atm
  /\ Len(vf_array) = Len(T_dome) /\ Len(vg_array) = Len(T_dome)
  /\ pc = "d_vf" => wl = Handle("TX", T_dome[i_dome], 0)
  /\ pc = "d_vg" => wl = Handle("TX", T_dome[i_dome], QScale)
  /\ (pc \in DomePcs \/ (cell = "dome" /\ pc = "done")) =>
       \A k \in 1..Len(T_dome) :
         /\ vf_array[k] =
              (IF k < i_dome \/ (k = i_dome /\ pc \in {"d_set1", "d_vg"})
               THEN VOf(Handle("TX", T_dome[k], 0)) ELSE 0)
         /\ vg_array[k] =
              (IF k < i_dome THEN VOf(Handle("TX", T_dome[k], QScale)) ELSE 0)
  /\ (cell = "dome" /\ pc = "done") =>
       /\ i_dome = Len(T_dome) + 1
       /\ plotted = <<vf_array, T_dome, vg_array, T_dome, <<vcrit>>, <<Tcrit>>>>

\* the dome plotted from MaxN samples, the last one just below Tcrit
C15_Witness ==
  /\ cell = "dome" /\ pc = "done"
  /\ Len(T_dome) = MaxN /\ T_dome[MaxN] = Tcrit - 1
  /\ vf_array[MaxN] = VfT(Tcrit - 1) /\ vg_array[MaxN] = VgT(Tcrit - 1)
  /\ vf_array[MaxN] < vg_array[MaxN]

\* C16: in an isobar loop, at every point of the run, the entries of T_array
\* that are not NaN are the entries before the loop index, each at most the
\* cut-off; the sample whose temperature first exceeds the cut-off is queried
\* but not stored, and after it the loop issues no further query (the queries
\* made are those of the stored samples and that one) and the entries from it
\* on stay NaN up to the plot.
C16_IsobarTruncation ==
  cell = "isobar" =>
    /\ Len(T_array) = Len(v_array)
    /\ i \in 1..(Len(v_array) + 1)
    /\ \A k \in 1..Len(v_array) :
         /\ (T_array[k] # NaN) = (k < i)
         /\ k < i => T_array[k] <= Tcut
    /\ pc = "iso_check" => nset = i /\ w = Handle("PV", P_array[1], v_array[i])
    /\ pc \in {"iso_set", "raised"} => nset = i - 1
    /\ (pc \in {"iso_plot", "done"} /\ i <= Len(v_array)) =>
         /\ nset = i
         /\ w = Handle("PV", P_array[1], v_array[i])
         /\ TOf(w) > Tcut
         /\ \A k \in 1..(i - 1) : TofPV(P_array[1], v_array[k]) <= Tcut
    /\ (pc \in {"iso_plot", "done"} /\ i > Len(v_array)) => nset = Len(v_array)
    /\ pc = "done" => plotted[2] = T_array

\* an isobar cut at 400 C after at least one sample was stored: the sample
\* above the cut-off was the last one queried
C16_Witness ==
  /\ cell = "isobar" /\ pc = "done" /\ Tcut = TCut400
  /\ 1 < i /\ i < Len(v_array) /\ nset = i
  /\ T_array[i - 1] <= Tcut /\ T_array[i] = NaN /\ TOf(w) > Tcut

\* state 1, state 2, state 3 have been set
Set1 == pc = "p_v1" \/ v1 # 0
Set2 == pc = "p_P2" \/ P2 # 0
Set3 == pc = "p_T3" \/ T3 # 0

\* C17: the states of the rigid-tank process are handles of their own:
\* setting state2 to (T2, v1) and state3 to (P3, v2) leaves the states set
\* before as they were, so that from its set on state1 holds (T1, P1), state2
\* holds (T2, v1) and state3 (P3, v1); when Tv_diagram(state1, state2, state3)
\* runs, the three states have the same specific volume v1 = v2 = v3.
C17_ProcessStatesIndependent ==
  /\ Set1 =>
       /\ state1 = Handle("TP", T1, P1)
       /\ TOf(state1) = T1 /\ POf(state1) = P1
       /\ v1 # 0 => v1 = VOf(state1)
  /\ Set2 =>
       /\ Set1
       /\ state2 = Handle("TV", T2, v1)
       /\ VOf(state2) = VOf(state1)
  /\ Set3 =>
       /\ Set2
       /\ state3 = Handle("PV", P3, v1)
       /\ VOf(state3) = VOf(state2) /\ VOf(state2) = VOf(state1)
       /\ POf(state3) = P3
  /\ (cell = "state3" /\ pc \in {"tv_diagram", "diag_T", "diag_v", "diag_text", "done"}) =>
       /\ Set3
       /\ \A k \in 1..(i_diag - 1) :
            pc # "tv_diagram" => v_states[k] = v1

\* the three states plotted: cooled at constant specific volume
C17_Witness ==
  /\ cell = "state3" /\ pc = "done"
  /\ args = <<"state1", "state2", "state3">>
  /\ v_states = <<v1, v1, v1>>
  /\ T_states = <<T1, T2, T3>> /\ T1 > T2 /\ T2 > T3
  /\ state1 = Handle("TP", T1, P1) /\ state1 # state2 /\ state2 # state3

\* the handles the caller of Tv_vapor_dome holds
callerHandles == <<w, state1, state2, state3>>

\* C18: Tv_vapor_dome sets only the handle it creates itself: neither the
\* call nor any step of the function changes the state of the global w,
\* state1, state2 or state3, so that on return the caller's handles hold what
\* they held before the call and the function's handle holds its last sample.
C18_DomeLeavesCallerHandles ==
  /\ [][(pc \in DomePcs \/ pc' \in DomePcs) => UNCHANGED callerHandles]_vars
  /\ []((pc = "tv_diagram" \/ (cell = "dome" /\ pc = "done")) =>
          /\ wl = Handle("TX", T_dome[Len(T_dome)], QScale)
          /\ w \in {Handle("TP", T, P_atm) : T \in {T_atm, T_atm + 2}}
          /\ state1 = (IF cell = "dome" THEN Water ELSE Handle("TP", T1, P1))
          /\ state2 = (IF cell = "dome" THEN Water ELSE Handle("TV", T2, v1))
          /\ state3 = (IF cell = "state3" THEN Handle("PV", P3, v1) ELSE Water))

\* Tv_vapor_dome has returned to a caller that holds w at 99 C and the three
\* process states
C18_Witness ==
  /\ cell = "state3" /\ pc = "tv_diagram"
  /\ w = Handle("TP", T_atm + 2, P_atm)
  /\ state1 = Handle("TP", T1, P1) /\ state3 = Handle("PV", P3, v1)
  /\ wl = Handle("TX", Tcrit - 1, QScale) /\ wl # w

\* an envelope has been read for the state whose phase is asked for
EnvelopeRead == pc = "ph_conclude" \/ Concluded

SweepPcs == {"s1_set", "s1_read", "s2_set", "s2_read", "iso_set", "iso_check"} \cup DomePcs

\* the sets a sweep has issued are those of the samples it has gone through:
\* at most N, N*M, 2*N, and N at the end of a sweep that ran through
SetCountsBounded ==
  /\ pc \in {"s1_set", "s1_read"} =>
       /\ nset <= Len(T_array)
       /\ nset = (IF pc = "s1_read" THEN i ELSE i - 1)
  /\ (cell \in {"tv1", "sat"} /\ pc = "done") => nset = Len(T_array)
  /\ pc \in {"s2_set", "s2_read"} =>
       /\ nset <= Len(T_array) * Len(P_array)
       /\ nset = (i - 1) * Len(P_array) + (IF pc = "s2_read" THEN j ELSE j - 1)
  /\ (cell = "tv2" /\ plotted # << >>) => nset = Len(T_array) * Len(P_array)
  /\ pc \in DomePcs =>
       /\ nset <= 2 * Len(T_dome)
       /\ nset = 2 * (i_dome - 1)
                  + (CASE pc = "d_set0" -> 0 [] pc = "d_vg" -> 2 [] OTHER -> 1)
  /\ (pc = "tv_diagram" \/ (cell = "dome" /\ pc = "done")) => nset = 2 * Len(T_dome)
  /\ cell = "isobar" =>
       /\ nset <= Len(v_array)
       /\ nset \in {i - 1, i}

\* C20: every sweep ends, after a number of set operations bounded by its
\* sample sequence: N for a sweep over N temperatures, N*M for a sweep over N
\* temperatures and M pressures, 2*N for Tv_vapor_dome and at most N for an
\* isobar loop; each set is for the sample after the one set before, and no
\* step of a loop changes the sample sequence the loop runs over.
C20_SweepsTerminate ==
  /\ []SetCountsBounded
  /\ [][(pc \in SweepPcs /\ pc' \in SweepPcs) =>
          (/\ UNCHANGED <<P_array, T_dome>>
           /\ IF cell = "isobar" THEN UNCHANGED v_array ELSE UNCHANGED T_array
           /\ i' >= i /\ i_dome' >= i_dome /\ nset' >= nset)]_vars
  /\ (pc \in SweepPcs) ~> (pc \notin SweepPcs)

\* Tv_vapor_dome has ended after two sets for each of MaxN samples
C20_Witness ==
  /\ cell = "dome" /\ pc = "done"
  /\ Len(T_dome) = MaxN /\ nset = 2 * MaxN

=============================================================================
